---------------------------- MODULE Spec2Model ----------------------------
(***************************************************************************)
(* Duplication detector of linter-rules-package.                           *)
(*                                                                         *)
(*   rule mode    src/rules/no-code-duplication.js   (ESLint rule, 1 file) *)
(*   script mode  src/unnamed/part_000               (staged files)        *)
(*                                                                         *)
(* A text is a sequence of one-character strings, so that the regular      *)
(* expressions, the splits and the substring of the source are modelled    *)
(* character by character.                                                 *)
(***************************************************************************)
EXTENDS Integers, Sequences, FiniteSets, TLC

(***************************************************************************)
(* Characters and character classes of the regular expressions             *)
(***************************************************************************)
LowerCase ==
    {"a","b","c","d","e","f","g","h","i","j","k","l","m",
     "n","o","p","q","r","s","t","u","v","w","x","y","z"}

UpperCase ==
    {"A","B","C","D","E","F","G","H","I","J","K","L","M",
     "N","O","P","Q","R","S","T","U","V","W","X","Y","Z"}

DigitChars == <<"0","1","2","3","4","5","6","7","8","9">>

IsDigit(c) == \E d \in 1..10 : DigitChars[d] = c

\* \w of the regular expressions: [A-Za-z0-9_]
IsWordChar(c) == c \in LowerCase \/ c \in UpperCase \/ IsDigit(c) \/ c = "_"

\* [a-zA-Z_$]
IsIdStart(c) == c \in LowerCase \/ c \in UpperCase \/ c = "_" \/ c = "$"

\* [a-zA-Z0-9_$]
IsIdPart(c) == IsIdStart(c) \/ IsDigit(c)

\* \s and the characters String.prototype.trim removes (those a line can hold)
IsSpace(c) == c \in {" ", "\t", "\r"}

\* the string a text stands for
RECURSIVE Str(_)
Str(s) == IF s = <<>> THEN "" ELSE Head(s) \o Str(Tail(s))

\* the decimal digits of a natural number, as `${counter}` prints it
RECURSIVE Decimal(_)
Decimal(n) ==
    IF n < 10 THEN <<DigitChars[n + 1]>>
    ELSE Decimal(n \div 10) \o <<DigitChars[(n % 10) + 1]>>

Max(a, b) == IF a >= b THEN a ELSE b

Min(a, b) == IF a <= b THEN a ELSE b

Abs(a) == IF a >= 0 THEN a ELSE 0 - a

(***************************************************************************)
(* String primitives: split, join, trim, startsWith, substring             *)
(***************************************************************************)
\* s starts with pat at index p (1-based)
OccursAt(s, pat, p) ==
    /\ p >= 1
    /\ p + Len(pat) - 1 <= Len(s)
    /\ SubSeq(s, p, p + Len(pat) - 1) = pat

startsWith(s, pat) == OccursAt(s, pat, 1)

\* s.split(pat)[0] for a non-empty pat: the part before its first occurrence
BeforeFirst(s, pat) ==
    LET hits == {p \in 1..Len(s) : OccursAt(s, pat, p)}
    IN  IF hits = {} THEN s
        ELSE SubSeq(s, 1, (CHOOSE p \in hits : \A q \in hits : p <= q) - 1)

\* the least index of the set at or after p, 0 when there is none
FirstFrom(indices, p) ==
    LET left == {x \in indices : x >= p}
    IN  IF left = {} THEN 0 ELSE CHOOSE x \in left : \A y \in left : x <= y

\* s.split("\n") from index p on, breaks being the indices of the "\n"
RECURSIVE SplitFrom(_, _, _)
SplitFrom(s, breaks, p) ==
    LET q == FirstFrom(breaks, p)
    IN  IF q = 0 THEN <<SubSeq(s, p, Len(s))>>
        ELSE <<SubSeq(s, p, q - 1)>> \o SplitFrom(s, breaks, q + 1)

\* s.split("\n"): never empty, "" gives one empty line
split(s) == SplitFrom(s, {q \in 1..Len(s) : s[q] = "\n"}, 1)

\* lines.join("\n"): [] gives ""
RECURSIVE join(_)
join(lines) ==
    IF lines = <<>> THEN <<>>
    ELSE IF Len(lines) = 1 THEN lines[1]
    ELSE lines[1] \o <<"\n">> \o join(Tail(lines))

RECURSIVE TrimStart(_)
TrimStart(s) ==
    IF s # <<>> /\ IsSpace(Head(s)) THEN TrimStart(Tail(s)) ELSE s

RECURSIVE TrimEnd(_)
TrimEnd(s) ==
    IF s # <<>> /\ IsSpace(s[Len(s)]) THEN TrimEnd(SubSeq(s, 1, Len(s) - 1)) ELSE s

trim(s) == TrimEnd(TrimStart(s))

\* s.replace(/\s+/g, " ")
RECURSIVE CollapseSpaces(_, _)
CollapseSpaces(s, p) ==
    IF p > Len(s) THEN <<>>
    ELSE IF IsSpace(s[p])
         THEN IF p > 1 /\ IsSpace(s[p - 1]) THEN CollapseSpaces(s, p + 1)
              ELSE <<" ">> \o CollapseSpaces(s, p + 1)
         ELSE <<s[p]>> \o CollapseSpaces(s, p + 1)

\* s.substring(0, n)
substring(s, n) == SubSeq(s, 1, Min(n, Len(s)))

IsIn(x, seq) == \E k \in 1..Len(seq) : seq[k] = x

(***************************************************************************)
(* normalizeIdentifiers                                                    *)
(***************************************************************************)
keywords ==
    {"if", "else", "for", "while", "do", "switch", "case", "break", "continue",
     "return", "function", "const", "let", "var", "class", "extends", "implements",
     "import", "export", "from", "default", "async", "await", "try", "catch", "finally",
     "throw", "new", "this", "super", "typeof", "instanceof", "in", "of", "true", "false",
     "null", "undefined", "void", "any", "string", "number", "boolean", "object",
     "interface", "type", "enum", "namespace", "module", "declare", "as", "is"}

\* MAX_CODE_SIZE (1 * 1024 * 1024), scaled down to the length of a few lines
MAX_CODE_SIZE == 30

MAX_IDENTIFIERS == 10000

MAX_IDENTIFIER_LENGTH == 100

\* \b at the gap before index p: exactly one neighbour is a word character
WordAt(s, p) == p >= 1 /\ p <= Len(s) /\ IsWordChar(s[p])

Boundary(s, p) == WordAt(s, p - 1) # WordAt(s, p)

\* the last index of the run of [a-zA-Z0-9_$] that holds index p
RECURSIVE RunEnd(_, _)
RunEnd(s, p) ==
    IF p < Len(s) /\ IsIdPart(s[p + 1]) THEN RunEnd(s, p + 1) ELSE p

\* /\b([a-zA-Z_$][a-zA-Z0-9_$]*)\b/ tried at index p: the end of the match
\* (the longest the greedy star can keep with \b after it), 0 without a match
IdentifierEnd(s, p) ==
    IF p <= Len(s) /\ Boundary(s, p) /\ IsIdStart(s[p])
    THEN LET ends == {q \in p..RunEnd(s, p) : Boundary(s, q + 1)}
         IN  IF ends = {} THEN 0
             ELSE CHOOSE q \in ends : \A r \in ends : r <= q
    ELSE 0

\* the matches from index p on, starts being the indices the pattern
\* matches at
RECURSIVE MatchesFrom(_, _, _)
MatchesFrom(s, starts, p) ==
    LET b == FirstFrom(starts, p)
    IN  IF b = 0 THEN <<>>
        ELSE <<SubSeq(s, b, IdentifierEnd(s, b))>>
                 \o MatchesFrom(s, starts, IdentifierEnd(s, b) + 1)

\* [...code.matchAll(identifierPattern)], each match's group 1
matchAll(s, p) == MatchesFrom(s, {b \in p..Len(s) : IdentifierEnd(s, b) # 0}, p)

\* `__VAR${counter}__`
Placeholder(counter) ==
    <<"_","_","V","A","R">> \o Decimal(counter) \o <<"_","_">>

\* first pass of the rule's copy: the keys of `identifiers`, in insertion order
RECURSIVE CollectIdentifiers(_, _)
CollectIdentifiers(matches, ids) ==
    IF matches = <<>> THEN ids
    ELSE IF Len(ids) >= MAX_IDENTIFIERS THEN ids
    ELSE LET identifier == Head(matches)
         IN  IF Len(identifier) > MAX_IDENTIFIER_LENGTH
             THEN CollectIdentifiers(Tail(matches), ids)
             ELSE IF Str(identifier) \notin keywords /\ ~IsIn(identifier, ids)
                  THEN CollectIdentifiers(Tail(matches), Append(ids, identifier))
                  ELSE CollectIdentifiers(Tail(matches), ids)

\* first pass of the script's copy: no cap, no length limit
RECURSIVE CollectIdentifiersScript(_, _)
CollectIdentifiersScript(matches, ids) ==
    IF matches = <<>> THEN ids
    ELSE LET identifier == Head(matches)
         IN  IF Str(identifier) \notin keywords /\ ~IsIn(identifier, ids)
             THEN CollectIdentifiersScript(Tail(matches), Append(ids, identifier))
             ELSE CollectIdentifiersScript(Tail(matches), ids)

\* new RegExp(`\\b${escapedIdentifier}\\b`) matches at index p
WordOccursAt(s, identifier, p) ==
    /\ OccursAt(s, identifier, p)
    /\ Boundary(s, p)
    /\ Boundary(s, p + Len(identifier))

\* the replacement from index p on, hits being the indices the regex
\* matches at; a match that begins inside the previous one is passed over
RECURSIVE ReplaceFrom(_, _, _, _, _)
ReplaceFrom(s, length, placeholder, hits, p) ==
    LET b == FirstFrom(hits, p)
    IN  IF b = 0 THEN SubSeq(s, p, Len(s))
        ELSE SubSeq(s, p, b - 1) \o placeholder
                 \o ReplaceFrom(s, length, placeholder, hits, b + length)

\* normalized.replace(regex, placeholder), regex global, identifier escaped
ReplaceWord(s, identifier, placeholder, p) ==
    ReplaceFrom(s, Len(identifier), placeholder,
                {b \in p..Len(s) : WordOccursAt(s, identifier, b)}, p)

\* the script's copy does not escape the identifier: a "$" in it is the
\* end-of-input assertion, and since an identifier the pattern matched never
\* ends with "$", a character must follow the assertion: no match anywhere
ReplaceWordScript(s, identifier, placeholder, p) ==
    IF IsIn("$", identifier) THEN s
    ELSE ReplaceWord(s, identifier, placeholder, p)

\* second pass: one global replace per identifier, in insertion order
RECURSIVE ReplaceAllIdentifiers(_, _, _)
ReplaceAllIdentifiers(s, ids, k) ==
    IF k > Len(ids) THEN s
    ELSE ReplaceAllIdentifiers(ReplaceWord(s, ids[k], Placeholder(k - 1), 1), ids, k + 1)

RECURSIVE ReplaceAllIdentifiersScript(_, _, _)
ReplaceAllIdentifiersScript(s, ids, k) ==
    IF k > Len(ids) THEN s
    ELSE ReplaceAllIdentifiersScript(
             ReplaceWordScript(s, ids[k], Placeholder(k - 1), 1), ids, k + 1)

\* a slip the claims are checked against: no size limit
normalizeIdentifiers_NoSizeLimit(code) ==
    ReplaceAllIdentifiers(code, CollectIdentifiers(matchAll(code, 1), <<>>), 1)

normalizeIdentifiers(code) ==
    IF Len(code) > MAX_CODE_SIZE THEN code
    ELSE ReplaceAllIdentifiers(code, CollectIdentifiers(matchAll(code, 1), <<>>), 1)

normalizeIdentifiersScript(code) ==
    ReplaceAllIdentifiersScript(code, CollectIdentifiersScript(matchAll(code, 1), <<>>), 1)

(***************************************************************************)
(* normalizeCode                                                           *)
(***************************************************************************)
\* line.split("//")[0].split("/*")[0]
withoutComments(line) == BeforeFirst(BeforeFirst(line, <<"/","/">>), <<"/","*">>)

\* withoutComments.trim().replace(/\s+/g, " ")
normalizedLine(line) == CollapseSpaces(trim(withoutComments(line)), 1)

\* the lines pushed to `normalized`
RECURSIVE KeptLines(_)
KeptLines(lines) ==
    IF lines = <<>> THEN <<>>
    ELSE LET l == normalizedLine(Head(lines))
         IN  IF Len(l) > 0 THEN <<l>> \o KeptLines(Tail(lines))
             ELSE KeptLines(Tail(lines))

codeWithoutWhitespace(code) == join(KeptLines(split(code)))

normalizeCode(code) == normalizeIdentifiers(codeWithoutWhitespace(code))

normalizeCodeScript(code) == normalizeIdentifiersScript(codeWithoutWhitespace(code))

(***************************************************************************)
(* calculateSimilarity.  The score (matches / maxLen) * 100 is kept as the *)
(* fraction num / den; a bare 100 or 0 has den = 1.                        *)
(***************************************************************************)
Score(num, den) == [num |-> num, den |-> den]

\* score >= threshold, score == value
ScoreAtLeast(score, threshold) == score.num >= threshold * score.den

ScoreIs(score, value) == score.num = value * score.den

\* the loop over i < minLen counting lines1[i] === lines2[i]
MatchingLines(lines1, lines2) ==
    Cardinality({i \in 1..Min(Len(lines1), Len(lines2)) : lines1[i] = lines2[i]})

\* a slip the claims are checked against: the early return dropped and the
\* loop started at the second line
calculateSimilarity_SkipsFirstLine(code1, code2) ==
    LET lines1 == split(normalizeCode(code1))
        lines2 == split(normalizeCode(code2))
    IN  Score(100 * MatchingLines(Tail(lines1), Tail(lines2)),
              Max(Len(lines1), Len(lines2)))

\* a slip the claims are checked against: divides by the first block's length
calculateSimilarity_DividesByFirst(code1, code2) ==
    LET normalized1 == normalizeCode(code1)
        normalized2 == normalizeCode(code2)
        lines1 == split(normalized1)
        lines2 == split(normalized2)
    IN  IF normalized1 = normalized2 THEN Score(100, 1)
        ELSE Score(100 * MatchingLines(lines1, lines2), Len(lines1))

calculateSimilarity(code1, code2) ==
    LET normalized1 == normalizeCode(code1)
        normalized2 == normalizeCode(code2)
        lines1 == split(normalized1)
        lines2 == split(normalized2)
        maxLen == Max(Len(lines1), Len(lines2))
    IN  IF normalized1 = normalized2 THEN Score(100, 1)
        ELSE IF maxLen = 0 THEN Score(0, 1)
        ELSE Score(100 * MatchingLines(lines1, lines2), maxLen)

calculateSimilarityScript(code1, code2) ==
    LET normalized1 == normalizeCodeScript(code1)
        normalized2 == normalizeCodeScript(code2)
        lines1 == split(normalized1)
        lines2 == split(normalized2)
        maxLen == Max(Len(lines1), Len(lines2))
    IN  IF normalized1 = normalized2 THEN Score(100, 1)
        ELSE IF maxLen = 0 THEN Score(0, 1)
        ELSE Score(100 * MatchingLines(lines1, lines2), maxLen)

(***************************************************************************)
(* extractCodeBlocks                                                       *)
(***************************************************************************)
\* lines.slice(start, end) with start >= 0: a negative end counts from the
\* end of the array, and both are clamped to it
slice(lines, start, end) ==
    LET len == Len(lines)
        to == IF end < 0 THEN Max(len + end, 0) ELSE Min(end, len)
        from == Min(start, len)
    IN  IF from < to THEN SubSeq(lines, from + 1, to) ELSE <<>>

\* Math.max(1, Math.floor(minLines / 2)); \div rounds down as Math.floor does
Step(minLines) == Max(1, minLines \div 2)

\* the window at 0-based line i, joined
WindowContent(lines, i, minLines) == join(slice(lines, i, i + minLines))

\* the test a line passes to be pushed to nonEmptyLines
IsSubstantive(line) ==
    LET trimmed == trim(line)
    IN  /\ Len(trimmed) > 0
        /\ ~startsWith(trimmed, <<"/","/">>)
        /\ ~startsWith(trimmed, <<"/","*">>)
        /\ ~startsWith(trimmed, <<"*">>)
        /\ ~startsWith(trimmed, <<"*","/">>)

nonEmptyLines(block) ==
    LET blockLines == split(block)
    IN  Cardinality({k \in 1..Len(blockLines) : IsSubstantive(blockLines[k])})

\* a slip the claims are checked against: half of the window is enough
WindowAccepted_Half(block, minLines) == 10 * nonEmptyLines(block) >= 5 * minLines

\* nonEmptyLines.length >= minLines * 0.7, in tenths
WindowAccepted(block, minLines) == 10 * nonEmptyLines(block) >= 7 * minLines

\* the block pushed by the rule's copy for the window at 0-based line i
Block(lines, i, minLines) ==
    LET block == WindowContent(lines, i, minLines)
    IN  [startLine |-> i + 1,
         endLine |-> i + minLines,
         content |-> block,
         normalized |-> normalizeCode(block)]

\* the block pushed by the script's copy, with the file it is stored under
BlockScript(file, lines, i, minLines) ==
    LET block == WindowContent(lines, i, minLines)
    IN  [file |-> file,
         startLine |-> i + 1,
         endLine |-> i + minLines,
         content |-> block,
         normalized |-> normalizeCodeScript(block)]

\* a slip the claims are checked against: the loop runs to the last line, so
\* windows that reach beyond it are cut short by slice
RECURSIVE ExtractFrom_PartialWindows(_, _, _)
ExtractFrom_PartialWindows(lines, i, minLines) ==
    IF i >= Len(lines) THEN <<>>
    ELSE (IF WindowAccepted(WindowContent(lines, i, minLines), minLines)
          THEN <<Block(lines, i, minLines)>> ELSE <<>>)
         \o ExtractFrom_PartialWindows(lines, i + Step(minLines), minLines)

\* for (let i = 0; i <= lines.length - minLines; i += step)
RECURSIVE ExtractFrom(_, _, _)
ExtractFrom(lines, i, minLines) ==
    IF i > Len(lines) - minLines THEN <<>>
    ELSE (IF WindowAccepted(WindowContent(lines, i, minLines), minLines)
          THEN <<Block(lines, i, minLines)>> ELSE <<>>)
         \o ExtractFrom(lines, i + Step(minLines), minLines)

extractCodeBlocks(content, minLines) == ExtractFrom(split(content), 0, minLines)

(***************************************************************************)
(* Inputs: the lines the bounded inputs are made of                        *)
(***************************************************************************)
\* "a = b;"  "c = d;"  "a + b;"  "a - b;"  "a * b;"  "a % b;"
LineAssign == <<"a"," ","="," ","b",";">>

LineAssignOther == <<"c"," ","="," ","d",";">>

LinePlus == <<"a"," ","+"," ","b",";">>

LineMinus == <<"a"," ","-"," ","b",";">>

LineTimes == <<"a"," ","*"," ","b",";">>

LineModulo == <<"a"," ","%"," ","b",";">>

\* "// c"
LineComment == <<"/","/"," ","c">>

\* "  b  =  a; // c": indented, spaced out, with a trailing comment
LineSpaced == <<" "," ","b"," "," ","="," "," ","a",";"," ","/","/"," ","c">>

\* "if (a) b;"
LineIf == <<"i","f"," ","(","a",")"," ","b",";">>

\* "a;" and "//": a short statement and a short comment-only line
LineCall == <<"a",";">>

LineSlashes == <<"/","/">>

\* "1 + 2 + 3;": no identifier
LineNumbers == <<"1"," ","+"," ","2"," ","+"," ","3",";">>

\* "a = a;": one identifier, twice
LineSelf == <<"a"," ","="," ","a",";">>

\* "x = __VAR0__;": an identifier that is spelled like a placeholder
LineUnderscored == <<"x"," ","="," ">> \o Placeholder(0) \o <<";">>

\* all sequences over S of length 0..n
SeqsUpTo(S, n) == UNION {[1..k -> S] : k \in 0..n}

(***************************************************************************)
(* State                                                                   *)
(***************************************************************************)
VARIABLES
    pc,             \* the position of the running scan
    \* two blocks handed to calculateSimilarity
    engine,         \* "rule" or "script": the copy of the engine in use
    code1, code2,   \* content of the two blocks
    block1, block2, \* their normalized fields, as extractCodeBlocks stores them
    similarity,     \* calculateSimilarity(block1.normalized, block2.normalized)
    swapped,        \* calculateSimilarity(block2.normalized, block1.normalized)
    renamedBy,      \* the renaming code2 was made from code1 with, or <<>>
    \* a path handed to the two path validators
    filePath, basePath,
    resolvedPath,   \* validateAndResolvePath(filePath, basePath)
    relativePath,   \* validatePath(filePath, basePath)
    \* configuration and scan, both modes
    minLines,       \* rule: minLines; script: MIN_DUPLICATION_LINES
    minSimilarity,  \* rule: minSimilarity; script: MIN_SIMILARITY
    blocks,         \* rule: limitedBlocks; script: blocks of the file being read
    i, j,           \* loop indices (0-based, as in the source)
    duplicates,     \* the `duplicates` array
    compared,       \* number of calculateSimilarity calls made by the scan
    \* rule mode
    content,        \* sourceCode.getText()
    extracted,      \* number of blocks extractCodeBlocks returned
    comparisonCount,
    reported,       \* the context.report data, or <<>>
    \* script mode
    stagedFiles,    \* the files left after the path and size checks
    fileIdx,        \* index of the file being read (1-based)
    lines,          \* content.split("\n") of the file being read
    allBlocks,
    blockMap,       \* sequence of [hash, blocks], in insertion order
    bucketIdx,      \* index of the bucket forEach is at (1-based)
    similar,
    processed

pathVars == <<filePath, basePath, resolvedPath, relativePath>>

simVars == <<engine, code1, code2, block1, block2, similarity, swapped, renamedBy,
             pathVars>>

scanVars == <<minLines, minSimilarity, blocks, i, j, duplicates, compared>>

ruleVars == <<content, extracted, comparisonCount, reported>>

scriptVars == <<stagedFiles, fileIdx, lines, allBlocks, blockMap, bucketIdx,
                similar, processed>>

vars == <<pc, simVars, scanVars, ruleVars, scriptVars>>

\* the variables a specification does not use keep these values
PathUnused ==
    /\ filePath = <<>> /\ basePath = <<>>
    /\ resolvedPath = <<>> /\ relativePath = <<>>

SimUnused ==
    /\ engine = "none" /\ code1 = <<>> /\ code2 = <<>>
    /\ block1 = <<>> /\ block2 = <<>>
    /\ similarity = <<>> /\ swapped = <<>> /\ renamedBy = <<>>
    /\ PathUnused

RuleUnused ==
    /\ content = <<>> /\ extracted = 0 /\ comparisonCount = 0 /\ reported = <<>>

ScriptUnused ==
    /\ stagedFiles = <<>> /\ fileIdx = 0 /\ lines = <<>> /\ allBlocks = <<>>
    /\ blockMap = <<>> /\ bucketIdx = 0 /\ similar = <<>> /\ processed = {}

ScanUnused ==
    /\ minLines = 0 /\ minSimilarity = 0 /\ blocks = <<>>
    /\ i = 0 /\ j = 0 /\ duplicates = <<>> /\ compared = 0

(***************************************************************************)
(* Two blocks scored against each other, as both call sites do it:         *)
(* extractCodeBlocks stores normalizeCode(content) in the block, and the   *)
(* scan passes the two normalized fields to calculateSimilarity.           *)
(***************************************************************************)
MaxTextLines == 2

TextLines == {LineComment, LineAssign, LineSpaced, LineIf}

\* four statements, more than MAX_CODE_SIZE characters with and without
\* their white space; and three lines that are longer than MAX_CODE_SIZE
\* only with their white space and comments
LongText == join(<<LineNumbers, LineNumbers, LineNumbers, LineCall>>)

CommentedText == join(<<LineSpaced, LineSpaced, LineComment>>)

\* block contents of up to MaxTextLines lines, and the contents above
Texts ==
    {join(ls) : ls \in SeqsUpTo(TextLines, MaxTextLines)}
    \cup {LineSelf, LineUnderscored, LongText, CommentedText}

\* the identifiers of the contents above that a renaming maps, and the
\* identifiers it may map them to: "a" "b" "x" "$x" "__VAR0__"
RenamedIdentifiers == {"a", "b"}

RenameTargets == {<<"a">>, <<"b">>, <<"x">>, <<"$","x">>, Placeholder(0)}

Renamings ==
    {r \in [RenamedIdentifiers -> RenameTargets] :
        \A u, v \in RenamedIdentifiers : u # v => r[u] # r[v]}

\* the text with every identifier token of the language (a maximal run of
\* [a-zA-Z0-9_$] that starts with [a-zA-Z_$]) the renaming maps replaced
RECURSIVE Rename(_, _, _)
Rename(s, r, p) ==
    LET b == FirstFrom({x \in p..Len(s) :
                           IsIdStart(s[x]) /\ (x = 1 \/ ~IsIdPart(s[x - 1]))}, p)
        q == RunEnd(s, b)
        token == SubSeq(s, b, q)
    IN  IF b = 0 THEN SubSeq(s, p, Len(s))
        ELSE SubSeq(s, p, b - 1)
                 \o (IF Str(token) \in DOMAIN r THEN r[Str(token)] ELSE token)
                 \o Rename(s, r, q + 1)

Normalize(e, code) == IF e = "rule" THEN normalizeCode(code) ELSE normalizeCodeScript(code)

Similarity(e, n1, n2) ==
    IF e = "rule" THEN calculateSimilarity(n1, n2) ELSE calculateSimilarityScript(n1, n2)

SimInit ==
    /\ pc = "blocks"
    /\ engine \in {"rule", "script"}
    /\ code1 \in Texts
    /\ code2 = <<>> /\ block1 = <<>> /\ block2 = <<>>
    /\ similarity = <<>> /\ swapped = <<>> /\ renamedBy = <<>>
    /\ PathUnused /\ ScanUnused /\ RuleUnused /\ ScriptUnused

\* both blocks extracted and scored, in both argument orders
ScoreBlocks(second, renaming) ==
    LET n1 == Normalize(engine, code1)
        n2 == Normalize(engine, second)
    IN  /\ pc = "blocks"
        /\ pc' = "scored"
        /\ code2' = second
        /\ renamedBy' = renaming
        /\ block1' = [content |-> code1, normalized |-> n1]
        /\ block2' = [content |-> second, normalized |-> n2]
        /\ similarity' = Similarity(engine, n1, n2)
        /\ swapped' = Similarity(engine, n2, n1)
        /\ UNCHANGED <<engine, code1, pathVars, scanVars, ruleVars, scriptVars>>

\* the second block is any content
CompareBlocks == \E t \in Texts : ScoreBlocks(t, <<>>)

\* the second block is the first with its identifiers renamed
CompareRenamed == \E r \in Renamings : ScoreBlocks(Rename(code1, r, 1), r)

SimNext == CompareBlocks \/ CompareRenamed

SpecSim == SimInit /\ [][SimNext]_vars

(***************************************************************************)
(* Path validation: validateAndResolvePath of src/scripts/utils/common.js  *)
(* and validatePath of src/utils/linter-utils.js, with the POSIX           *)
(* path.normalize, path.resolve and path.relative of node they call.       *)
(***************************************************************************)
MAX_PATH_LENGTH == 4096

Null == <<"null">>

Unvalidated == <<"unvalidated">>

Dot == <<".">>

DotDot == <<".", ".">>

isAbsolute(path) == path # <<>> /\ path[1] = "/"

\* the non-empty parts of the path between its "/"
PathSegments(path) ==
    SelectSeq(SplitFrom(path, {q \in 1..Len(path) : path[q] = "/"}, 1),
              LAMBDA seg : seg # <<>>)

RECURSIVE JoinPath(_)
JoinPath(segs) ==
    IF segs = <<>> THEN <<>>
    ELSE IF Len(segs) = 1 THEN segs[1]
    ELSE segs[1] \o <<"/">> \o JoinPath(Tail(segs))

\* normalizeString of node's path module: "." dropped, ".." takes the
\* segment before it away or, at the start, stays only above a relative path
RECURSIVE normalizeString(_, _, _, _)
normalizeString(segs, k, res, allowAboveRoot) ==
    IF k > Len(segs) THEN res
    ELSE IF segs[k] = Dot THEN normalizeString(segs, k + 1, res, allowAboveRoot)
    ELSE IF segs[k] = DotDot
         THEN IF res # <<>> /\ res[Len(res)] # DotDot
              THEN normalizeString(segs, k + 1, SubSeq(res, 1, Len(res) - 1),
                                   allowAboveRoot)
              ELSE IF allowAboveRoot
                   THEN normalizeString(segs, k + 1, Append(res, DotDot),
                                        allowAboveRoot)
                   ELSE normalizeString(segs, k + 1, res, allowAboveRoot)
    ELSE normalizeString(segs, k + 1, Append(res, segs[k]), allowAboveRoot)

\* path.normalize(path)
normalize(path) ==
    LET absolute == isAbsolute(path)
        trailing == path # <<>> /\ path[Len(path)] = "/"
        body == JoinPath(normalizeString(PathSegments(path), 1, <<>>, ~absolute))
    IN  IF path = <<>> THEN Dot
        ELSE IF body = <<>>
             THEN (IF absolute THEN <<"/">> ELSE IF trailing THEN <<".", "/">> ELSE Dot)
             ELSE (IF absolute THEN <<"/">> ELSE <<>>) \o body
                      \o (IF trailing THEN <<"/">> ELSE <<>>)

\* path.resolve(base, path) for an absolute base; path.resolve(base) is
\* resolve(base, <<>>)
resolve(base, path) ==
    LET joined == IF isAbsolute(path) THEN path ELSE base \o <<"/">> \o path
    IN  <<"/">> \o JoinPath(normalizeString(PathSegments(joined), 1, <<>>, FALSE))

RECURSIVE CommonSegments(_, _)
CommonSegments(a, b) ==
    IF a # <<>> /\ b # <<>> /\ Head(a) = Head(b)
    THEN 1 + CommonSegments(Tail(a), Tail(b))
    ELSE 0

\* path.relative(from, to) for two resolved paths
relative(from, to) ==
    LET f == PathSegments(from)
        t == PathSegments(to)
        c == CommonSegments(f, t)
    IN  JoinPath([k \in 1..(Len(f) - c) |-> DotDot] \o SubSeq(t, c + 1, Len(t)))

\* the prefix test both validators make: a comparison of characters
InsideBase(resolved, baseResolved) == startsWith(resolved, baseResolved)

validateAndResolvePath(path, base) ==
    IF path = <<>> THEN Null
    ELSE IF Len(path) > MAX_PATH_LENGTH THEN Null
    ELSE LET normalized == normalize(path)
             resolved == resolve(base, normalized)
             baseResolved == resolve(base, <<>>)
         IN  IF ~InsideBase(resolved, baseResolved) THEN Null ELSE resolved

validatePath(path, base) ==
    IF path = <<>> THEN Null
    ELSE IF Len(path) > MAX_PATH_LENGTH THEN Null
    ELSE LET normalized == normalize(path)
             resolved == resolve(base, normalized)
             baseResolved == resolve(base, <<>>)
         IN  IF ~InsideBase(resolved, baseResolved) THEN Null
             ELSE relative(baseResolved, resolved)

\* the paths handed in: relative and absolute paths of up to
\* MaxPathSegments names, ".", ".." among them, and two project roots
MaxPathSegments == 3

PathNames == {<<"p">>, <<"p", "p">>, <<"x">>, Dot, DotDot}

FilePaths ==
    {prefix \o JoinPath(segs) :
        prefix \in {<<>>, <<"/">>}, segs \in SeqsUpTo(PathNames, MaxPathSegments)}

BasePaths == {<<"/", "p">>, <<"/", "x", "/", "p">>}

PathInit ==
    /\ pc = "path"
    /\ filePath \in FilePaths
    /\ basePath \in BasePaths
    /\ resolvedPath = Unvalidated
    /\ relativePath = Unvalidated
    /\ engine = "none" /\ code1 = <<>> /\ code2 = <<>>
    /\ block1 = <<>> /\ block2 = <<>>
    /\ similarity = <<>> /\ swapped = <<>> /\ renamedBy = <<>>
    /\ ScanUnused /\ RuleUnused /\ ScriptUnused

ResolveInScript ==
    /\ pc = "path"
    /\ resolvedPath = Unvalidated
    /\ resolvedPath' = validateAndResolvePath(filePath, basePath)
    /\ UNCHANGED <<pc, filePath, basePath, relativePath, engine, code1, code2,
                   block1, block2, similarity, swapped, renamedBy,
                   scanVars, ruleVars, scriptVars>>

ValidateInRule ==
    /\ pc = "path"
    /\ relativePath = Unvalidated
    /\ relativePath' = validatePath(filePath, basePath)
    /\ UNCHANGED <<pc, filePath, basePath, resolvedPath, engine, code1, code2,
                   block1, block2, similarity, swapped, renamedBy,
                   scanVars, ruleVars, scriptVars>>

PathNext == ResolveInScript \/ ValidateInRule

SpecPath == PathInit /\ [][PathNext]_vars

(***************************************************************************)
(* Rule mode: create(context) of src/rules/no-code-duplication.js          *)
(***************************************************************************)
MIN_DUPLICATION_LINES == 10

MIN_SIMILARITY == 80

\* MAX_BLOCKS (1000) and MAX_COMPARISONS (10000) of the rule, scaled down
\* together: as in the source, a file can hold more blocks than MAX_BLOCKS
\* and MAX_BLOCKS blocks make more pairs than MAX_COMPARISONS
MAX_BLOCKS == 4

MAX_COMPARISONS == 5

\* An option value: a number (kept in tenths, so that 0.5 is 5), or a value
\* of another type
Number(tenths) == [type |-> "number", tenths |-> tenths]

NotANumber == [type |-> "string", tenths |-> 0]

Undefined == [type |-> "undefined", tenths |-> 0]

\* lines 201-204: typeof number, > 0, <= 1000, then Math.floor
SanitizeMinLines(option) ==
    IF option.type = "number" /\ option.tenths > 0 /\ option.tenths <= 10000
    THEN option.tenths \div 10
    ELSE MIN_DUPLICATION_LINES

\* lines 207-210: typeof number, >= 0, <= 100, then clamped
SanitizeMinSimilarity(option) ==
    IF option.type = "number" /\ option.tenths >= 0 /\ option.tenths <= 1000
    THEN Max(0, Min(100, option.tenths \div 10))
    ELSE MIN_SIMILARITY

\* Math.round of a score
Round(score) == (2 * score.num + score.den) \div (2 * score.den)

\* the contents a rule-mode scan is given: files of up to MaxRuleLines lines
MaxRuleLines == 8

RuleContents ==
    {join([k \in 1..n |-> LineAssign]) : n \in 0..MaxRuleLines}
    \cup {join(<<LineAssign, LineAssign, LinePlus, LineMinus,
                 LineAssign, LineAssign, LinePlus, LineTimes>>),
          join(<<LineAssign, LineComment, LineComment, LineAssign,
                 LineAssign, LineAssign, LineAssign>>),
          join(<<LineAssign, LineIf, LinePlus, LineMinus, LineTimes, LineModulo>>),
          \* the first line is like the fifth only
          join(<<LinePlus, LineAssign, LineAssign, LineMinus, LinePlus>>)}

\* options.minLines: absent, "4", 0.5, 1, 2, 3.5, 4, 1001
MinLinesOptions ==
    {Undefined, NotANumber, Number(5), Number(10), Number(20), Number(35),
     Number(40), Number(10010)}

\* options.minSimilarity: absent, 0, 50, 75, 100, 150
MinSimilarityOptions ==
    {Undefined, Number(0), Number(500), Number(750), Number(1000), Number(1500)}

\* create() up to the comparison loops (lines 198-250); the file is not
\* excluded and within MAX_CONTENT_SIZE
RuleInit ==
    /\ pc = "outer"
    /\ content \in RuleContents
    /\ \E o \in MinLinesOptions : minLines = SanitizeMinLines(o)
    /\ \E o \in MinSimilarityOptions : minSimilarity = SanitizeMinSimilarity(o)
    /\ extracted = Len(extractCodeBlocks(content, minLines))
    /\ blocks = slice(extractCodeBlocks(content, minLines), 0, MAX_BLOCKS)
    /\ i = 0 /\ j = 0
    /\ duplicates = <<>>
    /\ comparisonCount = 0
    /\ compared = 0
    /\ reported = <<>>
    /\ SimUnused /\ ScriptUnused

ruleConfig == <<minLines, minSimilarity, blocks, content, extracted>>

\* line 252: the outer loop's condition fails
OuterExit ==
    /\ pc = "outer"
    /\ ~(i < Len(blocks))
    /\ pc' = "report"
    /\ UNCHANGED <<i, j, duplicates, compared, comparisonCount, reported,
                   ruleConfig, simVars, scriptVars>>

\* lines 253-255: the cap was reached, break
OuterBreak ==
    /\ pc = "outer"
    /\ i < Len(blocks)
    /\ comparisonCount >= MAX_COMPARISONS
    /\ pc' = "report"
    /\ UNCHANGED <<i, j, duplicates, compared, comparisonCount, reported,
                   ruleConfig, simVars, scriptVars>>

\* line 257: the inner loop starts at j = i + 1
OuterEnter ==
    /\ pc = "outer"
    /\ i < Len(blocks)
    /\ comparisonCount < MAX_COMPARISONS
    /\ j' = i + 1
    /\ pc' = "inner"
    /\ UNCHANGED <<i, duplicates, compared, comparisonCount, reported,
                   ruleConfig, simVars, scriptVars>>

\* line 257: the inner loop's condition fails, the outer loop's i++
InnerExit ==
    /\ pc = "inner"
    /\ ~(j < Len(blocks))
    /\ i' = i + 1
    /\ pc' = "outer"
    /\ UNCHANGED <<j, duplicates, compared, comparisonCount, reported,
                   ruleConfig, simVars, scriptVars>>

\* lines 258-261: comparisonCount++ reaches the cap, break
InnerBreak ==
    /\ pc = "inner"
    /\ j < Len(blocks)
    /\ comparisonCount + 1 >= MAX_COMPARISONS
    /\ comparisonCount' = comparisonCount + 1
    /\ i' = i + 1
    /\ pc' = "outer"
    /\ UNCHANGED <<j, duplicates, compared, reported, ruleConfig, simVars, scriptVars>>

\* a slip the claims are checked against: blocks exactly minLines apart are
\* skipped as well
InnerTooClose_Inclusive ==
    /\ pc = "inner"
    /\ j < Len(blocks)
    /\ comparisonCount + 1 < MAX_COMPARISONS
    /\ Abs(blocks[i + 1].startLine - blocks[j + 1].startLine) <= minLines
    /\ comparisonCount' = comparisonCount + 1
    /\ j' = j + 1
    /\ UNCHANGED <<pc, i, duplicates, compared, reported, ruleConfig, simVars, scriptVars>>

\* lines 266-269: the two blocks start less than minLines apart, continue
InnerTooClose ==
    /\ pc = "inner"
    /\ j < Len(blocks)
    /\ comparisonCount + 1 < MAX_COMPARISONS
    /\ Abs(blocks[i + 1].startLine - blocks[j + 1].startLine) < minLines
    /\ comparisonCount' = comparisonCount + 1
    /\ j' = j + 1
    /\ UNCHANGED <<pc, i, duplicates, compared, reported, ruleConfig, simVars, scriptVars>>

\* lines 271-282: the pair is scored, and pushed when similar enough
InnerCompare ==
    /\ pc = "inner"
    /\ j < Len(blocks)
    /\ comparisonCount + 1 < MAX_COMPARISONS
    /\ ~(Abs(blocks[i + 1].startLine - blocks[j + 1].startLine) < minLines)
    /\ comparisonCount' = comparisonCount + 1
    /\ compared' = compared + 1
    /\ LET score == calculateSimilarity(blocks[i + 1].normalized, blocks[j + 1].normalized)
       IN  duplicates' =
               IF ScoreAtLeast(score, minSimilarity)
               THEN Append(duplicates, [block |-> blocks[i + 1],
                                        similarBlock |-> blocks[j + 1],
                                        similarity |-> Round(score)])
               ELSE duplicates
    /\ j' = j + 1
    /\ UNCHANGED <<pc, i, reported, ruleConfig, simVars, scriptVars>>

\* a slip the claims are checked against: the last duplicate is reported
Report_LastDuplicate ==
    /\ pc = "report"
    /\ Len(duplicates) > 0
    /\ reported' = [similarity |-> duplicates[Len(duplicates)].similarity,
                    startLine |-> duplicates[Len(duplicates)].block.startLine,
                    endLine |-> duplicates[Len(duplicates)].block.endLine]
    /\ pc' = "done"
    /\ UNCHANGED <<i, j, duplicates, compared, comparisonCount,
                   ruleConfig, simVars, scriptVars>>

\* lines 287-305: the first duplicate is reported on Program
Report ==
    /\ pc = "report"
    /\ Len(duplicates) > 0
    /\ reported' = [similarity |-> duplicates[1].similarity,
                    startLine |-> duplicates[1].block.startLine,
                    endLine |-> duplicates[1].block.endLine]
    /\ pc' = "done"
    /\ UNCHANGED <<i, j, duplicates, compared, comparisonCount,
                   ruleConfig, simVars, scriptVars>>

\* line 307: nothing to report
NoReport ==
    /\ pc = "report"
    /\ Len(duplicates) = 0
    /\ pc' = "done"
    /\ UNCHANGED <<i, j, duplicates, compared, comparisonCount, reported,
                   ruleConfig, simVars, scriptVars>>

RuleNext ==
    \/ OuterExit \/ OuterBreak \/ OuterEnter
    \/ InnerExit \/ InnerBreak \/ InnerTooClose \/ InnerCompare
    \/ Report \/ NoReport

SpecRule == RuleInit /\ [][RuleNext]_vars

(***************************************************************************)
(* Script mode: checkCodeDuplication() of src/unnamed/part_000             *)
(***************************************************************************)
\* parseInt(string, 10): leading white space, a sign, then the digits; NaN
\* when no digit follows
NaN == [nan |-> TRUE, value |-> 0]

DigitValue(c) == (CHOOSE d \in 1..10 : DigitChars[d] = c) - 1

RECURSIVE DigitsValue(_, _, _)
DigitsValue(s, p, acc) ==
    IF p <= Len(s) /\ IsDigit(s[p]) THEN DigitsValue(s, p + 1, 10 * acc + DigitValue(s[p]))
    ELSE acc

parseInt(string) ==
    LET s == TrimStart(string)
        signed == s # <<>> /\ Head(s) \in {"-", "+"}
        digits == IF signed THEN Tail(s) ELSE s
    IN  IF digits = <<>> \/ ~IsDigit(Head(digits)) THEN NaN
        ELSE [nan |-> FALSE,
              value |-> IF signed /\ Head(s) = "-"
                        THEN 0 - DigitsValue(digits, 1, 0)
                        ELSE DigitsValue(digits, 1, 0)]

\* parseInt(...) || fallback: NaN and 0 are falsy
OrElse(parsed, fallback) ==
    IF parsed.nan \/ parsed.value = 0 THEN fallback ELSE parsed.value

\* an environment variable that is not set reads undefined, which parseInt
\* turns into the string "undefined"
EnvUnset == <<"u","n","d","e","f","i","n","e","d">>

\* process.env.MIN_DUPLICATION_LINES: unset, "4", "-1000000"
EnvMinLines == {EnvUnset, <<"4">>, <<"-","1","0","0","0","0","0","0">>}

\* process.env.MIN_SIMILARITY: unset, "75", "150"
EnvMinSimilarity == {EnvUnset, <<"7","5">>, <<"1","5","0">>}

\* block.normalized.substring(0, 50)
HASH_LENGTH == 50

\* The staged files and what readFileSync returns for each
FileNames == {"F", "G", "HA", "B", "K", "T"}

FileContent(file) ==
    CASE file = "F" -> join([k \in 1..8 |-> LineAssign])
      [] file = "G" -> join([k \in 1..4 |-> LineAssignOther])
      [] file = "HA" -> join(<<LineAssign, LineAssign, LinePlus, LineMinus,
                               LineAssign, LineAssign, LinePlus, LineTimes>>)
      [] file = "B" -> join(<<LineAssign, LineAssign, LineModulo, LineMinus>>)
      [] file = "K" -> join(<<LineIf, LineComment, LineComment, LineAssign,
                              LineAssign, LineAssign>>)
      \* 15 lines: lines 1-10 hold 4 comment lines, lines 6-15 hold 3
      [] file = "T" -> join(<<LineSlashes>> \o [k \in 1..4 |-> LineCall]
                            \o [k \in 1..3 |-> LineSlashes]
                            \o [k \in 1..7 |-> LineCall])

\* at most MaxFiles files are staged, each once
MaxFiles == 2

StagedLists ==
    {fs \in SeqsUpTo(FileNames, MaxFiles) :
        \A a, b \in 1..Len(fs) : a # b => fs[a] # fs[b]}

\* The number of block objects the heap of the process holds before the
\* engine aborts with "heap out of memory"; more than any staged list needs
\* when the loop of extractCodeBlocks ends within the file
HeapBlocks == 12

\* `${block.file}:${block.startLine}`
Key(block) == <<block.file, block.startLine>>

\* a slip the claims are checked against: every block in one bucket
BuildBlockMap_OneBucket(bs, map) ==
    IF bs = <<>> THEN map
    ELSE <<[hash |-> substring(Head(bs).normalized, HASH_LENGTH), blocks |-> bs]>>

\* first pass, lines 219-225: the Map from hash to blocks, in insertion order
RECURSIVE BuildBlockMap(_, _)
BuildBlockMap(bs, map) ==
    IF bs = <<>> THEN map
    ELSE LET block == Head(bs)
             hash == substring(block.normalized, HASH_LENGTH)
             at == {k \in 1..Len(map) : map[k].hash = hash}
         IN  IF at = {}
             THEN BuildBlockMap(Tail(bs), Append(map, [hash |-> hash, blocks |-> <<block>>]))
             ELSE BuildBlockMap(Tail(bs),
                      [map EXCEPT ![CHOOSE k \in at : TRUE].blocks = Append(@, block)])

\* a slip the claims are checked against: one entry per block
UniqueFiles_PerBlock(bs) == {<<bs[k].file, bs[k].startLine>> : k \in 1..Len(bs)}

\* the distinct files of a list of blocks: new Set(similar.map((b) => b.file))
UniqueFiles(bs) == {bs[k].file : k \in 1..Len(bs)}

ScriptInit ==
    /\ pc = "start"
    /\ stagedFiles \in StagedLists
    /\ \E e \in EnvMinLines : minLines = OrElse(parseInt(e), 10)
    /\ \E e \in EnvMinSimilarity : minSimilarity = OrElse(parseInt(e), 80)
    /\ fileIdx = 1
    /\ lines = <<>> /\ blocks = <<>> /\ allBlocks = <<>>
    /\ blockMap = <<>> /\ bucketIdx = 0
    /\ i = 0 /\ j = 0
    /\ similar = <<>> /\ processed = {} /\ duplicates = <<>>
    /\ compared = 0
    /\ SimUnused /\ RuleUnused

scriptConfig == <<minLines, minSimilarity, stagedFiles>>

\* lines 171-173: no staged file, return
NoFiles ==
    /\ pc = "start"
    /\ Len(stagedFiles) = 0
    /\ pc' = "done"
    /\ UNCHANGED <<scanVars, scriptVars, simVars, ruleVars>>

\* line 179: the loop over the staged files begins
FirstFile ==
    /\ pc = "start"
    /\ Len(stagedFiles) > 0
    /\ pc' = "read"
    /\ UNCHANGED <<scanVars, scriptVars, simVars, ruleVars>>

\* lines 198-201 and 126-132: the file is read and extractCodeBlocks starts
ReadFile ==
    /\ pc = "read"
    /\ fileIdx <= Len(stagedFiles)
    /\ lines' = split(FileContent(stagedFiles[fileIdx]))
    /\ blocks' = <<>>
    /\ i' = 0
    /\ pc' = "extract"
    /\ UNCHANGED <<scriptConfig, fileIdx, allBlocks, blockMap, bucketIdx, j,
                   similar, processed, duplicates, compared, simVars, ruleVars>>

\* lines 132-159: one window, pushed
WindowPushed ==
    /\ pc = "extract"
    /\ i <= Len(lines) - minLines
    /\ WindowAccepted(WindowContent(lines, i, minLines), minLines)
    /\ Len(allBlocks) + Len(blocks) < HeapBlocks
    /\ blocks' = Append(blocks, BlockScript(stagedFiles[fileIdx], lines, i, minLines))
    /\ i' = i + Step(minLines)
    /\ UNCHANGED <<pc, scriptConfig, fileIdx, lines, allBlocks, blockMap, bucketIdx, j,
                   similar, processed, duplicates, compared, simVars, ruleVars>>

\* lines 132-159: one window, too few substantive lines
WindowRejected ==
    /\ pc = "extract"
    /\ i <= Len(lines) - minLines
    /\ ~WindowAccepted(WindowContent(lines, i, minLines), minLines)
    /\ i' = i + Step(minLines)
    /\ UNCHANGED <<pc, scriptConfig, fileIdx, lines, blocks, allBlocks, blockMap,
                   bucketIdx, j, similar, processed, duplicates, compared,
                   simVars, ruleVars>>

\* line 153: blocks.push with the heap full: the process aborts
OutOfMemory ==
    /\ pc = "extract"
    /\ i <= Len(lines) - minLines
    /\ WindowAccepted(WindowContent(lines, i, minLines), minLines)
    /\ Len(allBlocks) + Len(blocks) >= HeapBlocks
    /\ pc' = "crashed"
    /\ UNCHANGED <<scanVars, scriptVars, simVars, ruleVars>>

\* lines 162 and 202-207: the loop ends, the blocks go to allBlocks
FileDone ==
    /\ pc = "extract"
    /\ ~(i <= Len(lines) - minLines)
    /\ allBlocks' = allBlocks \o blocks
    /\ blocks' = <<>>
    /\ fileIdx' = fileIdx + 1
    /\ pc' = "read"
    /\ UNCHANGED <<scriptConfig, lines, blockMap, bucketIdx, i, j,
                   similar, processed, duplicates, compared, simVars, ruleVars>>

\* lines 214-225: all files read, the first pass
FirstPass ==
    /\ pc = "read"
    /\ fileIdx > Len(stagedFiles)
    /\ blockMap' = BuildBlockMap(allBlocks, <<>>)
    /\ bucketIdx' = 1
    /\ pc' = "bucket"
    /\ UNCHANGED <<scriptConfig, fileIdx, lines, blocks, allBlocks, i, j,
                   similar, processed, duplicates, compared, simVars, ruleVars>>

\* line 277: forEach is through
BucketsDone ==
    /\ pc = "bucket"
    /\ bucketIdx > Len(blockMap)
    /\ pc' = "done"
    /\ UNCHANGED <<scanVars, scriptVars, simVars, ruleVars>>

\* line 229: a bucket of fewer than 2 blocks
BucketSkip ==
    /\ pc = "bucket"
    /\ bucketIdx <= Len(blockMap)
    /\ Len(blockMap[bucketIdx].blocks) < 2
    /\ bucketIdx' = bucketIdx + 1
    /\ UNCHANGED <<pc, scriptConfig, fileIdx, lines, blocks, allBlocks, blockMap, i, j,
                   similar, processed, duplicates, compared, simVars, ruleVars>>

\* line 231: the loop over the bucket's blocks starts
BucketEnter ==
    /\ pc = "bucket"
    /\ bucketIdx <= Len(blockMap)
    /\ ~(Len(blockMap[bucketIdx].blocks) < 2)
    /\ i' = 0
    /\ pc' = "root"
    /\ UNCHANGED <<scriptConfig, fileIdx, lines, blocks, allBlocks, blockMap, bucketIdx,
                   j, similar, processed, duplicates, compared, simVars, ruleVars>>

\* the bucket forEach is at
Bucket == blockMap[bucketIdx].blocks

\* line 231: the loop over the bucket's blocks ends
RootExit ==
    /\ pc = "root"
    /\ ~(i < Len(Bucket))
    /\ bucketIdx' = bucketIdx + 1
    /\ pc' = "bucket"
    /\ UNCHANGED <<scriptConfig, fileIdx, lines, blocks, allBlocks, blockMap, i, j,
                   similar, processed, duplicates, compared, simVars, ruleVars>>

\* line 235: block1 is processed, continue
RootProcessed ==
    /\ pc = "root"
    /\ i < Len(Bucket)
    /\ Key(Bucket[i + 1]) \in processed
    /\ i' = i + 1
    /\ UNCHANGED <<pc, scriptConfig, fileIdx, lines, blocks, allBlocks, blockMap,
                   bucketIdx, j, similar, processed, duplicates, compared,
                   simVars, ruleVars>>

\* lines 237-239: similar = [block1], the inner loop starts
RootStart ==
    /\ pc = "root"
    /\ i < Len(Bucket)
    /\ Key(Bucket[i + 1]) \notin processed
    /\ similar' = <<Bucket[i + 1]>>
    /\ j' = i + 1
    /\ pc' = "inner"
    /\ UNCHANGED <<scriptConfig, fileIdx, lines, blocks, allBlocks, blockMap, bucketIdx,
                   i, processed, duplicates, compared, simVars, ruleVars>>

\* line 243: block2 is processed, continue
CandidateProcessed ==
    /\ pc = "inner"
    /\ j < Len(Bucket)
    /\ Key(Bucket[j + 1]) \in processed
    /\ j' = j + 1
    /\ UNCHANGED <<pc, scriptConfig, fileIdx, lines, blocks, allBlocks, blockMap,
                   bucketIdx, i, similar, processed, duplicates, compared,
                   simVars, ruleVars>>

\* a slip the claims are checked against: the distance test of the rule's
\* copy, which does not look at the file
TooClose_AnyFile(b1, b2) == Abs(b1.startLine - b2.startLine) < minLines

\* a slip the claims are checked against: no pair is skipped as overlapping
TooClose_Never(b1, b2) == FALSE

\* lines 246-251: same file and less than MIN_DUPLICATION_LINES apart
TooClose(b1, b2) ==
    /\ b1.file = b2.file
    /\ Abs(b1.startLine - b2.startLine) < minLines

CandidateTooClose ==
    /\ pc = "inner"
    /\ j < Len(Bucket)
    /\ Key(Bucket[j + 1]) \notin processed
    /\ TooClose(Bucket[i + 1], Bucket[j + 1])
    /\ j' = j + 1
    /\ UNCHANGED <<pc, scriptConfig, fileIdx, lines, blocks, allBlocks, blockMap,
                   bucketIdx, i, similar, processed, duplicates, compared,
                   simVars, ruleVars>>

\* a slip the claims are checked against: block2 joins the group and is
\* not marked processed
CandidateSimilar_NotMarked ==
    /\ pc = "inner"
    /\ j < Len(Bucket)
    /\ Key(Bucket[j + 1]) \notin processed
    /\ ~TooClose(Bucket[i + 1], Bucket[j + 1])
    /\ ScoreAtLeast(calculateSimilarityScript(Bucket[i + 1].normalized,
                                              Bucket[j + 1].normalized), minSimilarity)
    /\ similar' = Append(similar, Bucket[j + 1])
    /\ compared' = compared + 1
    /\ j' = j + 1
    /\ UNCHANGED <<pc, scriptConfig, fileIdx, lines, blocks, allBlocks, blockMap,
                   bucketIdx, i, processed, duplicates, simVars, ruleVars>>

\* a slip the claims are checked against: block2 joins the group whatever
\* the score
CandidateSimilar_AnyScore ==
    /\ pc = "inner"
    /\ j < Len(Bucket)
    /\ Key(Bucket[j + 1]) \notin processed
    /\ ~TooClose(Bucket[i + 1], Bucket[j + 1])
    /\ similar' = Append(similar, Bucket[j + 1])
    /\ processed' = processed \cup {Key(Bucket[j + 1])}
    /\ compared' = compared + 1
    /\ j' = j + 1
    /\ UNCHANGED <<pc, scriptConfig, fileIdx, lines, blocks, allBlocks, blockMap,
                   bucketIdx, i, duplicates, simVars, ruleVars>>

\* lines 253-261: the pair is scored; similar enough, block2 joins the group
CandidateSimilar ==
    /\ pc = "inner"
    /\ j < Len(Bucket)
    /\ Key(Bucket[j + 1]) \notin processed
    /\ ~TooClose(Bucket[i + 1], Bucket[j + 1])
    /\ ScoreAtLeast(calculateSimilarityScript(Bucket[i + 1].normalized,
                                              Bucket[j + 1].normalized), minSimilarity)
    /\ similar' = Append(similar, Bucket[j + 1])
    /\ processed' = processed \cup {Key(Bucket[j + 1])}
    /\ compared' = compared + 1
    /\ j' = j + 1
    /\ UNCHANGED <<pc, scriptConfig, fileIdx, lines, blocks, allBlocks, blockMap,
                   bucketIdx, i, duplicates, simVars, ruleVars>>

\* lines 253-258: the pair is scored; not similar enough
CandidateDifferent ==
    /\ pc = "inner"
    /\ j < Len(Bucket)
    /\ Key(Bucket[j + 1]) \notin processed
    /\ ~TooClose(Bucket[i + 1], Bucket[j + 1])
    /\ ~ScoreAtLeast(calculateSimilarityScript(Bucket[i + 1].normalized,
                                               Bucket[j + 1].normalized), minSimilarity)
    /\ compared' = compared + 1
    /\ j' = j + 1
    /\ UNCHANGED <<pc, scriptConfig, fileIdx, lines, blocks, allBlocks, blockMap,
                   bucketIdx, i, similar, processed, duplicates, simVars, ruleVars>>

\* a slip the claims are checked against: the root of an emitted group is
\* not marked processed
GroupEmitted_RootNotMarked ==
    /\ pc = "inner"
    /\ ~(j < Len(Bucket))
    /\ Len(similar) > 1
    /\ duplicates' = Append(duplicates,
                            [blocks |-> similar,
                             isSameFile |-> Cardinality(UniqueFiles(similar)) = 1,
                             fileCount |-> Cardinality(UniqueFiles(similar))])
    /\ i' = i + 1
    /\ pc' = "root"
    /\ UNCHANGED <<scriptConfig, fileIdx, lines, blocks, allBlocks, blockMap, bucketIdx,
                   j, similar, processed, compared, simVars, ruleVars>>

\* lines 264-275: the inner loop ended with a group of at least 2
GroupEmitted ==
    /\ pc = "inner"
    /\ ~(j < Len(Bucket))
    /\ Len(similar) > 1
    /\ duplicates' = Append(duplicates,
                            [blocks |-> similar,
                             isSameFile |-> Cardinality(UniqueFiles(similar)) = 1,
                             fileCount |-> Cardinality(UniqueFiles(similar))])
    /\ processed' = processed \cup {Key(Bucket[i + 1])}
    /\ i' = i + 1
    /\ pc' = "root"
    /\ UNCHANGED <<scriptConfig, fileIdx, lines, blocks, allBlocks, blockMap, bucketIdx,
                   j, similar, compared, simVars, ruleVars>>

\* line 264: the inner loop ended with block1 alone
NoGroup ==
    /\ pc = "inner"
    /\ ~(j < Len(Bucket))
    /\ ~(Len(similar) > 1)
    /\ i' = i + 1
    /\ pc' = "root"
    /\ UNCHANGED <<scriptConfig, fileIdx, lines, blocks, allBlocks, blockMap, bucketIdx,
                   j, similar, processed, duplicates, compared, simVars, ruleVars>>

Next ==
    \/ NoFiles \/ FirstFile \/ ReadFile
    \/ WindowPushed \/ WindowRejected \/ OutOfMemory \/ FileDone
    \/ FirstPass \/ BucketsDone \/ BucketSkip \/ BucketEnter
    \/ RootExit \/ RootProcessed \/ RootStart
    \/ CandidateProcessed \/ CandidateTooClose \/ CandidateSimilar \/ CandidateDifferent
    \/ GroupEmitted \/ NoGroup

Init == ScriptInit

Spec == Init /\ [][Next]_vars

(***************************************************************************)
(* Properties                                                              *)
(***************************************************************************)
\* the members of the emitted groups, as (group, position) pairs
Members == {m \in (1..Len(duplicates)) \X (1..MaxFiles * HeapBlocks) :
               m[2] <= Len(duplicates[m[1]].blocks)}

MemberBlock(m) == duplicates[m[1]].blocks[m[2]]

\* the block is a member of an emitted group
Grouped(b) == \E m \in Members : Key(MemberBlock(m)) = Key(b)

\* near-overlapping: same file, start lines less than minBlockLines apart
NearOverlapping(a, b) ==
    a.file = b.file /\ Abs(a.startLine - b.startLine) < minLines

\* two extracted blocks with byte-identical normalized contents that are not
\* near-overlapping
IdenticalPairs ==
    {p \in (1..Len(allBlocks)) \X (1..Len(allBlocks)) :
        /\ p[1] # p[2]
        /\ allBlocks[p[1]].normalized = allBlocks[p[2]].normalized
        /\ ~NearOverlapping(allBlocks[p[1]], allBlocks[p[2]])}

\* C1 (as claimed): a block and the same block with its non-keyword
\* identifiers renamed injectively have the same normalized content, and
\* score 100 against each other.
C1_RenamingKeepsNormalizedContent ==
    (pc = "scored" /\ renamedBy # <<>>)
        => /\ block2.normalized = block1.normalized
           /\ ScoreIs(similarity, 100)

\* C2 (as claimed): no two members of a group that belong to the same file
\* start less than minBlockLines apart, whichever pair of members is taken.
C2_NoNearOverlappingMembers ==
    \A m, n \in Members :
        (m[1] = n[1] /\ m[2] # n[2])
            => ~NearOverlapping(MemberBlock(m), MemberBlock(n))

C4_GroupsDisjoint ==
    \A m, n \in Members :
        m # n => Key(MemberBlock(m)) # Key(MemberBlock(n))

\* C4 witness: a finished scan that emitted two groups.
C4_Witness == pc = "done" /\ Len(duplicates) >= 2

\* C5 (as claimed): any two members of a group score at least
\* minSimilarityPercent against each other.
C5_MembersMutuallySimilar ==
    \A m, n \in Members :
        m[1] = n[1]
            => ScoreAtLeast(calculateSimilarityScript(MemberBlock(m).normalized,
                                                      MemberBlock(n).normalized),
                            minSimilarity)

\* C5 (amended): every member of a group scores at least
\* minSimilarityPercent against the group's first member.
C5_MembersSimilarToFirst ==
    \A m \in Members :
        ScoreAtLeast(calculateSimilarityScript(duplicates[m[1]].blocks[1].normalized,
                                               MemberBlock(m).normalized),
                     minSimilarity)

\* C5 witness: a group with a member that scores less than 100 against the
\* first member.
C5_Witness ==
    \E m \in Members :
        /\ m[2] > 1
        /\ ~ScoreIs(calculateSimilarityScript(duplicates[m[1]].blocks[1].normalized,
                                              MemberBlock(m).normalized), 100)

\* C6 (as claimed): a scan never makes more than maxComparisons similarity
\* comparisons.
C6_ComparisonsCapped == compared <= MAX_COMPARISONS

\* C7 (as claimed): every scan returns: none ends with the process aborted.
C7_ScanReturns == pc # "crashed"

\* C8 (as claimed): two blocks that both normalize to the empty string
\* score 0.
C8_EmptyBlocksScoreZero ==
    (pc = "scored" /\ block1.normalized = <<>> /\ block2.normalized = <<>>)
        => ScoreIs(similarity, 0)

\* C9: two blocks with identical, non-empty normalized contents score
\* exactly 100.
C9_IdenticalBlocksScore100 ==
    (pc = "scored" /\ block1.normalized = block2.normalized /\ block1.normalized # <<>>)
        => ScoreIs(similarity, 100)

\* C9 witness: two blocks of different content with the same non-empty
\* normalized content, scored.
C9_Witness ==
    /\ pc = "scored"
    /\ code1 # code2
    /\ block1.normalized = block2.normalized
    /\ block1.normalized # <<>>

\* C10: the score does not depend on the order of the two blocks.
C10_SimilaritySymmetric == pc = "scored" => similarity = swapped

\* C10 witness: two scored blocks with a different number of normalized
\* lines and a score strictly between 0 and 100.
C10_Witness ==
    /\ pc = "scored"
    /\ Len(split(block1.normalized)) # Len(split(block2.normalized))
    /\ ~ScoreIs(similarity, 0)
    /\ ~ScoreIs(similarity, 100)

\* C11 (as claimed): for two blocks whose normalized contents differ, the
\* score is 100 * (number of indices below both line counts at which the
\* lines of the two normalized contents are equal) / (the larger line
\* count); and every score lies in [0, 100].
C11_ScoreIsMatchingLineRatio ==
    pc = "scored"
        => LET linesA == split(block1.normalized)
               linesB == split(block2.normalized)
               equal == Cardinality({k \in 1..Min(Len(linesA), Len(linesB)) :
                                        linesA[k] = linesB[k]})
           IN  /\ block1.normalized # block2.normalized
                    => similarity.num * Max(Len(linesA), Len(linesB))
                           = 100 * equal * similarity.den
               /\ similarity.den > 0
               /\ 0 <= similarity.num
               /\ similarity.num <= 100 * similarity.den

\* C12: with minBlockLines >= 1, every block extractCodeBlocks emits for a
\* buffer has 1 <= startLine, endLine - startLine + 1 = minBlockLines and
\* endLine <= the number of lines of the buffer; a buffer of fewer lines
\* yields no block.
C12_BlocksAreFullWindows ==
    minLines >= 1
        => LET emitted == extractCodeBlocks(content, minLines)
               lineCount == Len(split(content))
           IN  /\ \A k \in 1..Len(emitted) :
                      /\ 1 <= emitted[k].startLine
                      /\ emitted[k].endLine - emitted[k].startLine + 1 = minLines
                      /\ emitted[k].endLine <= lineCount
               /\ lineCount < minLines => emitted = <<>>

\* C12 witness: a buffer that is not a whole number of strides long, with
\* several blocks emitted, the last one short of the last line.
C12_Witness ==
    /\ pc = "done"
    /\ minLines >= 2
    /\ extracted >= 2
    /\ extracted <= MAX_BLOCKS
    /\ blocks[Len(blocks)].endLine < Len(split(content))
    /\ blocks[Len(blocks)].endLine + Step(minLines) > Len(split(content))

\* the start lines of the windows the scan of the file being read has passed
\* (0-based index below upTo) that are to be emitted: on the stride, of full
\* length, and with at least 70% substantive lines
ExpectedStarts(upTo) ==
    {s \in 1..Len(lines) :
        /\ (s - 1) % Max(1, minLines \div 2) = 0
        /\ s - 1 < upTo
        /\ s + minLines - 1 <= Len(lines)
        /\ 10 * Cardinality({k \in s..(s + minLines - 1) : IsSubstantive(lines[k])})
               >= 7 * minLines}

C14_FileCountIsDistinctFiles ==
    \A g \in 1..Len(duplicates) :
        LET members == duplicates[g].blocks
            files == {members[k].file : k \in 1..Len(members)}
        IN  /\ duplicates[g].fileCount = Cardinality(files)
            /\ duplicates[g].fileCount >= 1
            /\ duplicates[g].isSameFile
                   <=> \A a, b \in 1..Len(members) : members[a].file = members[b].file
            /\ duplicates[g].isSameFile <=> duplicates[g].fileCount = 1

\* C14 witness: a group of three members from two files.
C14_Witness ==
    \E g \in 1..Len(duplicates) :
        /\ Len(duplicates[g].blocks) = 3
        /\ duplicates[g].fileCount = 2
        /\ ~duplicates[g].isSameFile

\* C15 (as claimed): whatever value is supplied, the effective
\* minBlockLines of a scan is an integer from 1 to 1000.
C15_MinLinesInRange == minLines >= 1 /\ minLines <= 1000

\* C16 (as claimed): whatever value is supplied, the effective
\* minSimilarityPercent of a scan is from 0 to 100.
C16_MinSimilarityInRange == minSimilarity >= 0 /\ minSimilarity <= 100

\* the pairs a < b of the blocks bs that qualify in rule mode: start lines
\* at least minLines apart and a score of at least minSimilarity
QualifyingPairs(bs) ==
    {p \in (1..Len(bs)) \X (1..Len(bs)) :
        /\ p[1] < p[2]
        /\ Abs(bs[p[1]].startLine - bs[p[2]].startLine) >= minLines
        /\ ScoreAtLeast(calculateSimilarity(bs[p[1]].normalized, bs[p[2]].normalized),
                        minSimilarity)}

\* the first of them in discovery order: smallest i, then smallest j
FirstQualifyingPair(bs) ==
    CHOOSE p \in QualifyingPairs(bs) :
        \A q \in QualifyingPairs(bs) :
            p[1] < q[1] \/ (p[1] = q[1] /\ p[2] <= q[2])

\* the report is for the first block of the first qualifying pair of bs
ReportIsFirstOf(bs) ==
    /\ QualifyingPairs(bs) # {}
    /\ reported.startLine = bs[FirstQualifyingPair(bs)[1]].startLine
    /\ reported.endLine = bs[FirstQualifyingPair(bs)[1]].endLine
    /\ reported.endLine - reported.startLine + 1 = minLines

\* C17 (as claimed): a report, once made, stays the only one, and its line
\* range is that of the first block of the first qualifying pair, in
\* discovery order, over the extracted blocks.
C17_ReportsFirstPairOfExtracted ==
    /\ [](reported # <<>> => ReportIsFirstOf(extractCodeBlocks(content, minLines)))
    /\ [][reported # <<>> => reported' = reported]_vars

\* C17 (amended): a report, once made, stays the only one, and its line
\* range is that of the first block of the first qualifying pair, in
\* discovery order, over the first MAX_BLOCKS extracted blocks.
C17_ReportsFirstPairOfLimited ==
    /\ [](reported # <<>> => ReportIsFirstOf(blocks))
    /\ [][reported # <<>> => reported' = reported]_vars

\* C17 witness: a file with more than MAX_BLOCKS blocks was reported, and
\* not for its first block.
C17_Witness ==
    /\ pc = "done"
    /\ reported # <<>>
    /\ extracted > MAX_BLOCKS
    /\ reported.startLine > 1

\* no ceiling is hit: at most MAX_BLOCKS extracted blocks, and fewer pairs
\* of them than MAX_COMPARISONS
NoCeilingHit ==
    /\ extracted <= MAX_BLOCKS
    /\ (extracted * (extracted - 1)) \div 2 < MAX_COMPARISONS

\* C18: when no ceiling is hit, the rule reports a duplication for the file
\* if and only if two of its extracted blocks start at least minLines apart
\* and score at least minSimilarity.
C18_ReportsIffQualifyingPair ==
    (pc = "done" /\ NoCeilingHit)
        => (reported # <<>>
                <=> QualifyingPairs(extractCodeBlocks(content, minLines)) # {})

\* C18 witness: a file of three blocks was reported, and not every pair of
\* its blocks qualifies.
C18_Witness ==
    /\ pc = "done"
    /\ NoCeilingHit
    /\ extracted = 3
    /\ reported # <<>>
    /\ Cardinality(QualifyingPairs(blocks)) < 3

\* C19 (as claimed): when the raw text handed to the rule's normalizeCode
\* is longer than MAX_CODE_SIZE, no identifier is replaced: what is returned
\* is the text without its comments and white space.
C19_RawTextOverLimitKept ==
    (pc = "scored" /\ engine = "rule" /\ Len(code1) > MAX_CODE_SIZE)
        => block1.normalized = codeWithoutWhitespace(code1)

\* C19 (amended): when the text handed to the rule's normalizeCode is, after
\* the removal of comments and white space, longer than MAX_CODE_SIZE, no
\* identifier is replaced: that text is returned as it is.
C19_CleanedTextOverLimitKept ==
    (pc = "scored" /\ engine = "rule"
        /\ Len(codeWithoutWhitespace(code1)) > MAX_CODE_SIZE)
        => block1.normalized = codeWithoutWhitespace(code1)

\* C19 witness: a scored block of the rule whose text without comments and
\* white space is longer than MAX_CODE_SIZE and holds identifiers.
C19_Witness ==
    /\ pc = "scored"
    /\ engine = "rule"
    /\ Len(codeWithoutWhitespace(code1)) > MAX_CODE_SIZE
    /\ CollectIdentifiers(matchAll(codeWithoutWhitespace(code1), 1), <<>>) # <<>>

\* the distinct non-keyword identifier tokens of a text (maximal runs of
\* [a-zA-Z0-9_$] that start with [a-zA-Z_$]), in first-seen order
RECURSIVE FirstSeenIdentifiers(_, _, _)
FirstSeenIdentifiers(s, p, ids) ==
    LET b == FirstFrom({x \in p..Len(s) :
                           IsIdStart(s[x]) /\ (x = 1 \/ ~IsIdPart(s[x - 1]))}, p)
        q == RunEnd(s, b)
        token == SubSeq(s, b, q)
    IN  IF b = 0 THEN ids
        ELSE FirstSeenIdentifiers(s, q + 1,
                 IF Str(token) \notin keywords /\ ~IsIn(token, ids)
                 THEN Append(ids, token) ELSE ids)

\* the text with every occurrence of its k-th distinct non-keyword
\* identifier (k from 0) replaced by __VARk__, and nothing else changed
Canonical(s) ==
    LET ids == FirstSeenIdentifiers(s, 1, <<>>)
        r == [id \in {Str(ids[k]) : k \in 1..Len(ids)} |->
                 Placeholder((CHOOSE k \in 1..Len(ids) : Str(ids[k]) = id) - 1)]
    IN  Rename(s, r, 1)

\* the text is within the ceiling of the engine's normalizeIdentifiers
WithinCeilings(e, s) == e = "rule" => Len(s) <= MAX_CODE_SIZE

\* C20 (as claimed): within the ceilings, the normalized content of a block
\* is its comment- and whitespace-free text with every occurrence of the
\* k-th distinct non-keyword identifier replaced by __VARk__ and everything
\* else, keywords included, unchanged.
C20_PlaceholdersFollowIdentifiers ==
    pc = "scored"
        => /\ WithinCeilings(engine, codeWithoutWhitespace(code1))
                => block1.normalized = Canonical(codeWithoutWhitespace(code1))
           /\ WithinCeilings(engine, codeWithoutWhitespace(code2))
                => block2.normalized = Canonical(codeWithoutWhitespace(code2))

\* the path is the base or lies inside it: the segments of the resolved
\* base are the first segments of the resolved path
ResolvesInsideBase ==
    LET r == PathSegments(resolve(basePath, normalize(filePath)))
        b == PathSegments(resolve(basePath, <<>>))
    IN  Len(b) <= Len(r) /\ SubSeq(r, 1, Len(b)) = b

\* C21: validateAndResolvePath and validatePath return a non-null value
\* only when the path, resolved against the base, is the base itself or
\* lies inside it; every path that resolves outside the base yields null.
C21_NonNullOnlyInsideBase ==
    /\ resolvedPath \notin {<<>>, Unvalidated, Null} => ResolvesInsideBase
    /\ relativePath \notin {<<>>, Unvalidated, Null} => ResolvesInsideBase
    /\ (pc = "path" /\ ~ResolvesInsideBase)
           => /\ resolvedPath \in {Unvalidated, Null}
              /\ relativePath \in {Unvalidated, Null}

\* block.normalized.substring(0, 50), the fingerprint of a block
Fingerprint(block) == substring(block.normalized, HASH_LENGTH)

\* a step of the scan that calls calculateSimilarity
ScoresPair == compared' = compared + 1

\* C22: in a script-mode scan two blocks are scored against each other only
\* if the first 50 characters of their normalized contents are equal, and
\* the blocks of a bucket with a single block are never scanned; so all
\* members of an emitted group share one fingerprint.
C22_ScoredPairsShareFingerprint ==
    /\ [](\A m, n \in Members :
              m[1] = n[1] => Fingerprint(MemberBlock(m)) = Fingerprint(MemberBlock(n)))
    /\ [](pc \in {"root", "inner"} => Len(Bucket) >= 2)
    /\ [][ScoresPair =>
              /\ pc = "inner"
              /\ Len(Bucket) >= 2
              /\ Fingerprint(Bucket[i + 1]) = Fingerprint(Bucket[j + 1])]_vars

\* a scan that ended with a bucket of one block, a group, and a group whose
\* members have the same fingerprint and different normalized contents
C22_Witness ==
    /\ pc = "done"
    /\ \E k \in 1..Len(blockMap) : Len(blockMap[k].blocks) = 1
    /\ \E k \in 1..Len(blockMap) : Len(blockMap[k].blocks) >= 2
    /\ compared > 0
    /\ \E m, n \in Members :
           /\ m[1] = n[1]
           /\ MemberBlock(m).normalized # MemberBlock(n).normalized

\* the position of a block in the bucket of its fingerprint, which keeps the
\* order of extraction
BucketPosition(b) ==
    LET bucket == (CHOOSE e \in {blockMap[k] : k \in 1..Len(blockMap)} :
                       e.hash = Fingerprint(b)).blocks
    IN  CHOOSE k \in 1..Len(bucket) : Key(bucket[k]) = Key(b)

\* C23: every group emitted by a script-mode scan has at least 2 members,
\* its first member (the root) precedes every other member in the bucket's
\* extraction order, and every other member scored at least
\* minSimilarityPercent against the root and is not near-overlapping with it.
C23_GroupsGrowFromRoot ==
    \A g \in 1..Len(duplicates) :
        LET members == duplicates[g].blocks
            root == members[1]
        IN  /\ Len(members) >= 2
            /\ \A n \in 2..Len(members) :
                   /\ BucketPosition(root) < BucketPosition(members[n])
                   /\ ScoreAtLeast(calculateSimilarityScript(root.normalized,
                                                             members[n].normalized),
                                   minSimilarity)
                   /\ ~NearOverlapping(root, members[n])

\* a finished scan with a group of a root, a later block of the root's file
\* and a block of another file, in a bucket that also holds a block near the
\* root
C23_Witness ==
    /\ pc = "done"
    /\ \E g \in 1..Len(duplicates) :
           LET members == duplicates[g].blocks
           IN  /\ Len(members) >= 3
               /\ \E n \in 2..Len(members) : members[n].file = members[1].file
               /\ \E n \in 2..Len(members) : members[n].file # members[1].file
               /\ \E k \in 1..Len(allBlocks) :
                      /\ Fingerprint(allBlocks[k]) = Fingerprint(members[1])
                      /\ Key(allBlocks[k]) # Key(members[1])
                      /\ NearOverlapping(members[1], allBlocks[k])

\* C24 (as claimed): the two copies of the engine agree: for every block
\* text the rule's normalizeCode and the script's normalizeCode return the
\* same normalized text, and both copies give every pair of blocks the
\* same score.
C24_EngineCopiesAgree ==
    pc = "scored"
        => /\ normalizeCode(code1) = normalizeCodeScript(code1)
           /\ normalizeCode(code2) = normalizeCodeScript(code2)
           /\ calculateSimilarity(normalizeCode(code1), normalizeCode(code2))
                  = calculateSimilarityScript(normalizeCodeScript(code1),
                                              normalizeCodeScript(code2))

\* C25 (as claimed): normalizing a normalized block again changes nothing,
\* normalizeCode(normalizeCode(x)) = normalizeCode(x) for every raw block x;
\* so the score of two blocks is the positional comparison of the lines of
\* their cached normalized contents, and it is 100 only when the cached
\* contents are identical or all compared lines match.
C25_RenormalizingChangesNothing ==
    pc = "scored"
        => LET linesA == split(block1.normalized)
               linesB == split(block2.normalized)
               equal == Cardinality({k \in 1..Min(Len(linesA), Len(linesB)) :
                                        linesA[k] = linesB[k]})
           IN  /\ Normalize(engine, block1.normalized) = block1.normalized
               /\ Normalize(engine, block2.normalized) = block2.normalized
               /\ ScoreIs(similarity, 100)
                      => \/ block1.normalized = block2.normalized
                         \/ equal = Max(Len(linesA), Len(linesB))

\* the keys of the members of the emitted groups
MemberKeys == {Key(MemberBlock(m)) : m \in Members}

\* C26: during a script-mode scan the set of consumed blocks only grows; a
\* consumed block is never chosen as the root of a group and never added to
\* a further group; and when the scan ends the consumed set is exactly the
\* union of the members of the emitted groups.
C26_ConsumedSetGrowsToMembers ==
    /\ [][processed \subseteq processed']_vars
    /\ [][(pc = "root" /\ pc' = "inner") => Key(similar'[1]) \notin processed]_vars
    /\ [][(pc = "inner" /\ Len(similar') > Len(similar))
              => Key(similar'[Len(similar')]) \notin processed]_vars
    /\ [](pc = "done" => processed = MemberKeys)

\* a finished scan with two groups and with extracted blocks that were
\* never consumed
C26_Witness ==
    /\ pc = "done"
    /\ Len(duplicates) >= 2
    /\ processed # {}
    /\ \E k \in 1..Len(allBlocks) : Key(allBlocks[k]) \notin processed

=============================================================================
